---- MODULE Spec2Model ----
(***************************************************************************)
(* A model of the age-gated subscription system: the range-membership      *)
(* gate (proofs/src/chips/in_range1.rs), the proof engine and setup        *)
(* manager (proofs/src/proofs.rs), the client operations                   *)
(* (subscriptions-client/src/min_age_proof_ops.rs) and the ledger contract *)
(* (contracts/subscriptions/lib.rs).                                       *)
(*                                                                         *)
(* The scalar field Fr of bn256 is modelled by the prime field of order    *)
(* Modulus.  A byte is a digit in base ByteBase and an account has         *)
(* 2 * HalfLen of them (32 bytes, two 128-bit halves, in the code).  As in *)
(* the code, every value embedded into the field (ages, thresholds,        *)
(* account halves) is smaller than the field's order.                      *)
(*                                                                         *)
(* A proof is modelled by what the prover committed to: the verifying key  *)
(* it was created under and the advice cells.  Verification is the ideal   *)
(* one (complete and knowledge sound): it accepts exactly when the proof   *)
(* was created under the verifier's key and the committed cells satisfy    *)
(* the constraint system of that key on the verifier's instance column.    *)
(***************************************************************************)
EXTENDS Integers, Sequences, FiniteSets, TLC

VARIABLES
    \* the proof engine under test
    proof, outcome,
    \* the client: MinAgeProofOps<REQUIRED_AGE>, its files and the key registry
    required_age, setup, setup_file, proof_file, vk_storage, result,
    \* the ledger contract: its storage, the chain's block number, and what the
    \* last message did (the call, its return value, the transfers it made and
    \* the events it emitted)
    owner, price_per_block, subscriptions, active_subscriptions, proof_vk,
    proof_min_required_age, block_number, call, ret, transfers, emitted,
    \* the hash of the code that executes the calls to the contract's address
    code_hash

engine_vars == <<proof, outcome>>
client_vars == <<required_age, setup, setup_file, proof_file, vk_storage, result>>
storage_vars ==
    <<owner, price_per_block, subscriptions, active_subscriptions, proof_vk,
      proof_min_required_age>>
ledger_vars == <<storage_vars, block_number, call, ret, transfers, emitted, code_hash>>
vars == <<engine_vars, client_vars, ledger_vars>>

(***************************************************************************)
(* Bounds of the model.                                                    *)
(***************************************************************************)
MaxAge == 121
HalfLen == 2
ByteBase == 5

(***************************************************************************)
(* Program constants.                                                      *)
(***************************************************************************)
RANGE_TO == 120
CIRCUIT_MAX_K == 4
REQUIRED_AGE_18 == 18
REQUIRED_AGE_21 == 21
Modulus == 251

Policies == {REQUIRED_AGE_18, REQUIRED_AGE_21}
\* The thresholds a setup may be requested for: the policies, and thresholds
\* next to, at and above RANGE_TO.
ShapePolicies == Policies \cup {RANGE_TO - 1, RANGE_TO, RANGE_TO + 1}
Ages == 0..MaxAge
Rows == 0..2

NoProof == [kind |-> "none"]
NoOutcome == [kind |-> "none"]

(***************************************************************************)
(* Field arithmetic and the embeddings into the field.                     *)
(***************************************************************************)
Fp == 0..(Modulus - 1)

from_u128(x) == x % Modulus

neg(x) == (Modulus - (x % Modulus)) % Modulus

RECURSIVE from_le_bytes(_)
from_le_bytes(bs) ==
    IF bs = <<>> THEN 0 ELSE Head(bs) + ByteBase * from_le_bytes(Tail(bs))

RECURSIVE le_bytes(_, _)
le_bytes(x, n) ==
    IF n = 0 THEN <<>> ELSE <<x % ByteBase>> \o le_bytes(x \div ByteBase, n - 1)

to_le_bytes(x) == le_bytes(x, HalfLen)

(***************************************************************************)
(* Accounts: the two accounts of the tests, every account that differs     *)
(* from ACCOUNT in a single byte, and accounts with a half that equals a   *)
(* threshold.                                                              *)
(***************************************************************************)
AccountLen == 2 * HalfLen
ACCOUNT == [i \in 1..AccountLen |-> 1]
INVALID_ACCOUNT == [i \in 1..AccountLen |-> 2]

Accounts ==
    {ACCOUNT, INVALID_ACCOUNT}
        \cup {[ACCOUNT EXCEPT ![j] = 2] : j \in 1..AccountLen}
        \cup {to_le_bytes(REQUIRED_AGE_18) \o to_le_bytes(1),
              to_le_bytes(1) \o to_le_bytes(REQUIRED_AGE_21)}

(***************************************************************************)
(* The range-membership gate.                                              *)
(***************************************************************************)
\* The product of (i - v) for i in lo..(hi - 1), as the fold of in_range_exp
\* builds it; the range is split in halves to keep the evaluation shallow.
RECURSIVE fold_range(_, _, _)
fold_range(lo, hi, v) ==
    IF lo >= hi THEN 1
    ELSE IF hi = lo + 1 THEN (lo - v) % Modulus
    ELSE LET mid == (lo + hi) \div 2
         IN  (fold_range(lo, mid, v) * fold_range(mid, hi, v)) % Modulus

\* Mutants of in_range_exp: the range starts one late; the range includes range_to.
in_range_exp_from_next(range_from, range_to, v) ==
    fold_range(range_from + 1, range_to, v)

in_range_exp_to_inclusive(range_from, range_to, v) ==
    fold_range(range_from, range_to + 1, v)

\* (range_from..range_to).fold(1, |expr, i| expr * (i - v))
in_range_exp(range_from, range_to, v) == fold_range(range_from, range_to, v)

\* A function given by a rule, as the table of its values.
Tabulated(f) == f @@ <<>>

\* The range polynomial of each policy's circuit, by its values on the field.
in_range_poly ==
    Tabulated([RANGE_FROM \in ShapePolicies |->
                 Tabulated([v \in Fp |-> in_range_exp(RANGE_FROM, RANGE_TO, v)])])

\* Mutant of in_range_gate: the range check alone, with no q_a * a + instance.
in_range_gate_unanchored(RANGE_FROM, selector_v, value, a, q_a, instance) ==
    (selector_v * in_range_poly[RANGE_FROM][value]) % Modulus

\* Constraints::with_selector(selector_v, [in_range_exp + q_a * a + instance])
in_range_gate(RANGE_FROM, selector_v, value, a, q_a, instance) ==
    (selector_v * ((in_range_poly[RANGE_FROM][value] + q_a * a + instance) % Modulus))
    % Modulus

\* Mutants of assign_fixed: row 2 is left out; rows 1 and 2 are left out.
assign_fixed_rows01 ==
    [selector_v |-> [r \in Rows |-> IF r = 2 THEN 0 ELSE 1],
     q_a        |-> [r \in Rows |-> IF r = 2 THEN 0 ELSE neg(1)],
     copy       |-> {1}]

assign_fixed_row0 ==
    [selector_v |-> [r \in Rows |-> IF r = 0 THEN 1 ELSE 0],
     q_a        |-> [r \in Rows |-> IF r = 0 THEN neg(1) ELSE 0],
     copy       |-> {}]

\* What assign fixes at key generation: the rows the selector enables, the
\* fixed column q_a, and the cells of column a that are copies of the
\* instance column (assign_advice_from_instance).
assign_fixed ==
    [selector_v |-> [r \in Rows |-> 1],
     q_a        |-> [r \in Rows |-> neg(1)],
     copy       |-> {1, 2}]

\* What assign writes to the advice columns for a witness.
assign_advice(RANGE_FROM, value, instances) ==
    [value |-> [r \in Rows |-> IF r = 0 THEN value ELSE from_u128(RANGE_FROM)],
     a     |-> [r \in Rows |-> IF r = 0 THEN from_u128(RANGE_FROM) ELSE instances[r]]]

\* The constraint system of a verifying key holds on advice and instance.
satisfied(RANGE_FROM, advice, instances) ==
    /\ \A r \in Rows :
          in_range_gate(RANGE_FROM, assign_fixed.selector_v[r], advice.value[r],
                        advice.a[r], assign_fixed.q_a[r], instances[r]) = 0
    /\ \A r \in assign_fixed.copy : advice.a[r] = instances[r]

(***************************************************************************)
(* Setup manager and proof engine.                                         *)
(***************************************************************************)
Setup_generate(RANGE_FROM, k) ==
    [k |-> k, range_from |-> RANGE_FROM, rng |-> "mock_rng"]

generate_setup(RANGE_FROM) == Setup_generate(RANGE_FROM, CIRCUIT_MAX_K)

vk_of(s) == [k |-> s.k, range_from |-> s.range_from, rng |-> s.rng]

\* Mutant of public_input: the low half of the account is taken twice.
public_input_low_twice(RANGE_FROM, account) ==
    [i \in Rows |->
        IF i = 0 THEN from_u128(RANGE_FROM)
        ELSE from_u128(from_le_bytes(SubSeq(account, 1, HalfLen)))]

\* Mutant of public_input: the halves of the account change places.
public_input_halves_swapped(RANGE_FROM, account) ==
    [i \in Rows |->
        CASE i = 0 -> from_u128(RANGE_FROM)
          [] i = 1 -> from_u128(from_le_bytes(SubSeq(account, HalfLen + 1, AccountLen)))
          [] i = 2 -> from_u128(from_le_bytes(SubSeq(account, 1, HalfLen)))]

public_input(RANGE_FROM, account) ==
    [i \in Rows |->
        CASE i = 0 -> from_u128(RANGE_FROM)
          [] i = 1 -> from_u128(from_le_bytes(SubSeq(account, 1, HalfLen)))
          [] i = 2 -> from_u128(from_le_bytes(SubSeq(account, HalfLen + 1, AccountLen)))]

create_proof(s, RANGE_FROM, value, instances) ==
    [kind |-> "proof", vk |-> vk_of(s),
     advice |-> assign_advice(RANGE_FROM, value, instances)]

generate_proof(RANGE_FROM, s, age, for_account) ==
    create_proof(s, RANGE_FROM, from_u128(age), public_input(RANGE_FROM, for_account))

verify_proof(vk, instances, pf) ==
    /\ pf.vk = vk
    /\ satisfied(vk.range_from, pf.advice, instances)

validate(t) == verify_proof(t.vk, t.instances, t.proof)

(***************************************************************************)
(* Serialization of the setup.  The prover-only blob holds the SRS and the *)
(* proving key: the size parameter, the SRS and the fixed and permutation  *)
(* data of the circuit.  The gate is not part of it: from_bytes rebuilds   *)
(* the constraint system from the circuit type it is called with.          *)
(***************************************************************************)
NoFile == [kind |-> "none"]
CorruptFile == [kind |-> "corrupt"]
None == [kind |-> "None"]

Some(x) == [kind |-> "Some", value |-> x]

Ok(x) == [kind |-> "Ok", value |-> x]

Err(e) == [kind |-> "Err", error |-> e]

to_bytes(s) ==
    [kind   |-> "setup",
     params |-> [k |-> s.k, rng |-> s.rng],
     pk     |-> [k |-> s.k, fixed |-> assign_fixed]]

\* u32::to_le_bytes
u32_to_le_bytes(x) == [i \in 1..4 |-> (x \div 256 ^ (i - 1)) % 256]

\* Mutant of vk_to_bytes: k is written with the most significant byte first.
vk_to_bytes_big_endian(s) ==
    [k |-> [i \in 1..4 |-> u32_to_le_bytes(s.k)[5 - i]],
     vk |-> [k |-> s.k, fixed |-> assign_fixed, rng |-> s.rng]]

\* The blob is the bytes of k followed by the bytes of the verifying key.
vk_to_bytes(s) ==
    [k |-> u32_to_le_bytes(s.k),
     vk |-> [k |-> s.k, fixed |-> assign_fixed, rng |-> s.rng]]

\* Mutant of from_bytes: k is the constant of the circuit and not the k of
\* the params read.
from_bytes_constant_k(RANGE_FROM, buffer) ==
    IF buffer.kind # "setup" THEN Err("failed to read ZKP params")
    ELSE Ok([k |-> CIRCUIT_MAX_K, range_from |-> RANGE_FROM,
             rng |-> buffer.params.rng])

from_bytes(RANGE_FROM, buffer) ==
    IF buffer.kind # "setup" THEN Err("failed to read ZKP params")
    ELSE Ok([k |-> buffer.params.k, range_from |-> RANGE_FROM,
             rng |-> buffer.params.rng])

load_setup(RANGE_FROM, buffer) == from_bytes(RANGE_FROM, buffer)

(***************************************************************************)
(* The client.  A file holds, beside its bytes, the policy and the size    *)
(* parameter its setup was generated for (made_for), which no operation    *)
(* reads.                                                                  *)
(***************************************************************************)
MaxK == 5
TEST_AGE == 23

KValues == CIRCUIT_MAX_K..MaxK
ClientAges == {REQUIRED_AGE_18 - 1, TEST_AGE}
ClientAccounts == {ACCOUNT, INVALID_ACCOUNT}

NoResult == [op |-> "none"]

ClientIdle ==
    /\ required_age = REQUIRED_AGE_18
    /\ setup = None
    /\ setup_file = NoFile
    /\ proof_file = NoFile
    /\ vk_storage = {}
    /\ result = NoResult

ClientInit ==
    /\ required_age \in Policies
    /\ setup = None
    /\ setup_file = NoFile
    /\ proof_file = NoFile
    /\ vk_storage = {}
    /\ result = NoResult

SetupFile(s, P, k) == [to_bytes(s) EXCEPT !.kind = "setup"] @@ [made_for |-> [policy |-> P, k |-> k]]

\* std::fs::write creates or truncates the file and writes the bytes: it
\* writes them all, or fails before the file is touched, or fails after the
\* file was truncated and a part of the bytes was written.
Writes == {"all", "none", "part"}

fs_write(file, bs, written) ==
    CASE written = "all" -> bs
      [] written = "none" -> file
      [] written = "part" -> CorruptFile

\* MinAgeProofOps::generate_setup: the setup is held before the file is written.
ClientGenerateSetup ==
    /\ \E written \in Writes :
          LET s == generate_setup(required_age)
          IN  /\ setup' = Some([s |-> s, made_for |-> [policy |-> required_age, k |-> s.k]])
              /\ setup_file' = fs_write(setup_file, SetupFile(s, required_age, s.k), written)
              /\ result' = [op |-> "generate_setup",
                            ret |-> IF written = "all" THEN Ok("unit")
                                    ELSE Err("failed to write ZKP setup to file")]
    /\ UNCHANGED <<required_age, proof_file, vk_storage, engine_vars, ledger_vars>>

\* MinAgeProofOps::load_setup
ClientLoadSetup ==
    /\ IF setup_file = NoFile
       THEN /\ setup' = None
            /\ result' = [op |-> "load_setup",
                          ret |-> Err("failed to read ZKP setup from file")]
       ELSE LET r == load_setup(required_age, setup_file)
            IN  /\ setup' = IF r.kind = "Ok"
                            THEN Some([s |-> r.value, made_for |-> setup_file.made_for])
                            ELSE None
                /\ result' = [op |-> "load_setup",
                              ret |-> IF r.kind = "Ok" THEN Ok("unit") ELSE r]
    /\ UNCHANGED <<required_age, setup_file, proof_file, vk_storage, engine_vars, ledger_vars>>

\* MinAgeProofOps::generate_proof
ClientGenerateProof ==
    /\ \E account_id \in ClientAccounts, age \in ClientAges, written \in Writes :
          IF setup = None
          THEN /\ result' = [op |-> "generate_proof", ret |-> Err("Missing trusted setup")]
               /\ UNCHANGED proof_file
          ELSE LET bs == generate_proof(required_age, setup.value.s, age, account_id)
               IN  /\ proof_file' =
                         fs_write(proof_file,
                                  [kind |-> "proof", bytes |-> bs,
                                   made_with |-> setup.value.made_for],
                                  written)
                   /\ result' = [op |-> "generate_proof",
                                 ret |-> IF written = "all" THEN Ok("unit")
                                         ELSE Err("failed to write ZKP proof to file")]
    /\ UNCHANGED <<required_age, setup, setup_file, vk_storage, engine_vars, ledger_vars>>

\* MinAgeProofOps::register_vk: store_key of the verification-key blob.
ClientRegisterVk ==
    /\ \E tx_ok \in BOOLEAN :
          IF setup = None
          THEN /\ result' = [op |-> "register_vk", ret |-> Err("Missing trusted setup")]
               /\ UNCHANGED vk_storage
          ELSE /\ vk_storage' =
                     IF tx_ok THEN vk_storage \cup {vk_to_bytes(setup.value.s)}
                     ELSE vk_storage
               /\ result' = [op |-> "register_vk",
                             ret |-> IF tx_ok THEN Ok("unit")
                                     ELSE Err("failed to register verification key on aleph chain")]
    /\ UNCHANGED <<required_age, setup, setup_file, proof_file, engine_vars, ledger_vars>>

\* The setup file is one that Setup::generate and to_bytes produced for some
\* policy and size parameter (another build of the client, another run).
ForeignSetupFile ==
    /\ \E Q \in Policies, k \in KValues :
          setup_file' = SetupFile(Setup_generate(Q, k), Q, k)
    /\ result' = NoResult
    /\ UNCHANGED <<required_age, setup, proof_file, vk_storage, engine_vars, ledger_vars>>

\* The bytes of a setup file with bytes of the SRS points changed and the
\* lengths kept: SerdeFormat::RawBytesUnchecked reads points without a check.
Altered(file) ==
    IF file.kind = "setup" THEN [file EXCEPT !.params.rng = "altered"] ELSE file

\* Bytes of the setup file are changed.
AlterSetupFile ==
    /\ setup_file.kind = "setup"
    /\ setup_file' = Altered(setup_file)
    /\ setup_file' # setup_file
    /\ result' = NoResult
    /\ UNCHANGED <<required_age, setup, proof_file, vk_storage, engine_vars, ledger_vars>>

\* The setup file is truncated or overwritten, or removed.
DamageSetupFile ==
    /\ setup_file # NoFile
    /\ \E f \in {NoFile, CorruptFile} : f # setup_file /\ setup_file' = f
    /\ result' = NoResult
    /\ UNCHANGED <<required_age, setup, proof_file, vk_storage, engine_vars, ledger_vars>>

ClientNext ==
    \/ ClientGenerateSetup
    \/ ClientLoadSetup
    \/ ClientGenerateProof
    \/ ClientRegisterVk
    \/ ForeignSetupFile
    \/ DamageSetupFile

(***************************************************************************)
(* The ledger contract (contracts/subscriptions/lib.rs).  A String is its  *)
(* UTF-8 bytes.  A hash is modelled by what it is the hash of.  The chain  *)
(* keeps the verifying keys registered under their hashes, and its         *)
(* verifier extension checks a proof against the key found under a hash.   *)
(***************************************************************************)
BLOCKS_PER_WEEK == 3600 * 24 * 7
BLOCKS_PER_MONTH == 3600 * 24 * 7 * 30

MaxIntervals == 2
MaxWeeks == 1
\* Bounds of the settlement runs: the intervals a subscriber declares, and
\* the weeks and months the chain advances.
MaxDeclared == 3
MaxSettledWeeks == 2
MaxMonths == 1

PaymentIntervals == {"Week", "Month"}
Prices == {0, 1}
LedgerAccounts == {ACCOUNT, INVALID_ACCOUNT}
String(bytes) == [utf8 |-> bytes]
Handles == {String(<<>>), String(<<1, 1, 1, 1>>)}
into_bytes(string) == string.utf8
is_empty(string) == Len(string.utf8) = 0

KeyHash(vk) == [hash_of |-> vk]
\* The hash the contract's tests deploy with: no key is registered under it.
PROOF_VK_HASH == KeyHash([k |-> 0, range_from |-> 0, rng |-> "none"])
VkStorage == {vk_of(generate_setup(P)) : P \in Policies}
KeyHashes == {KeyHash(vk) : vk \in VkStorage} \cup {PROOF_VK_HASH}

\* vec![0u8; 60], the proof of the contract's tests: not a proof.
NotAProof == [kind |-> "bytes", len |-> 60]

\* The proofs a caller may submit: what the honest prover generates for the
\* caller or for the owner, under either policy, for an age below or above
\* the thresholds; and bytes that are not a proof.
ProofsOf ==
    Tabulated([caller \in LedgerAccounts |->
                 {generate_proof(P, generate_setup(P), age, acc) :
                     P \in Policies, age \in ClientAges, acc \in {caller, ACCOUNT}}
                     \cup {NotAProof}])

\* Code hashes: the code the contract is instantiated with, another code
\* uploaded to the chain, and a hash under which the chain has no code.
DeployedCode == "deployed"
UploadedCode == {"deployed", "upgrade"}
CodeHashes == UploadedCode \cup {"missing"}

NoCall == [op |-> "none"]
NoRet == [kind |-> "none"]
NoSubscriptions == [acct \in {} |-> NoRet]

\* Subscriptions::new, called by the account that becomes the owner.
LedgerInit ==
    /\ owner = ACCOUNT
    /\ price_per_block \in Prices
    /\ subscriptions = NoSubscriptions
    /\ active_subscriptions = <<>>
    /\ proof_vk \in KeyHashes
    /\ proof_min_required_age \in Policies
    /\ block_number = 0
    /\ call = NoCall
    /\ ret = NoRet
    /\ transfers = <<>>
    /\ emitted = <<>>
    /\ code_hash = DeployedCode

LedgerIdle ==
    /\ owner = ACCOUNT
    /\ price_per_block = 1
    /\ subscriptions = NoSubscriptions
    /\ active_subscriptions = <<>>
    /\ proof_vk = KeyHash(vk_of(generate_setup(REQUIRED_AGE_18)))
    /\ proof_min_required_age = REQUIRED_AGE_18
    /\ block_number = 0
    /\ call = NoCall
    /\ ret = NoRet
    /\ transfers = <<>>
    /\ emitted = <<>>
    /\ code_hash = DeployedCode

validate_channel_handle(channel_handle) ==
    IF is_empty(channel_handle) THEN Err(<<"MissingChannelHandle">>) ELSE Ok("unit")

validate_intervals_to_pay(intervals_to_pay) ==
    IF intervals_to_pay = 0 THEN Err(<<"InvalidIntervalsToPay", intervals_to_pay>>)
    ELSE Ok("unit")

\* Mutant of price_per_interval: a month is priced as a week.
price_per_interval_weekly(price, payment_interval) == price * BLOCKS_PER_WEEK

price_per_interval(price, payment_interval) ==
    price * (CASE payment_interval = "Week" -> BLOCKS_PER_WEEK
               [] payment_interval = "Month" -> BLOCKS_PER_MONTH)

\* Each input is the 128-bit value in little-endian bytes, padded with as
\* many zero bytes to the size of a field element.
Padding == [i \in 1..HalfLen |-> 0]

\* Mutant of proof_public_inputs: the account of the inputs is a fixed
\* account and not the caller.
proof_public_inputs_fixed_account(min_required_age, caller) ==
    Ok(to_le_bytes(min_required_age) \o Padding
       \o to_le_bytes(from_le_bytes(SubSeq(ACCOUNT, 1, HalfLen))) \o Padding
       \o to_le_bytes(from_le_bytes(SubSeq(ACCOUNT, HalfLen + 1, AccountLen)))
       \o Padding)

\* Mutant of proof_public_inputs: the zero bytes come before the bytes of
\* each value.
proof_public_inputs_padding_first(min_required_age, caller) ==
    Ok(Padding \o to_le_bytes(min_required_age)
       \o Padding \o to_le_bytes(from_le_bytes(SubSeq(caller, 1, HalfLen)))
       \o Padding
       \o to_le_bytes(from_le_bytes(SubSeq(caller, HalfLen + 1, AccountLen))))

proof_public_inputs(min_required_age, caller) ==
    Ok(to_le_bytes(min_required_age) \o Padding
       \o to_le_bytes(from_le_bytes(SubSeq(caller, 1, HalfLen))) \o Padding
       \o to_le_bytes(from_le_bytes(SubSeq(caller, HalfLen + 1, AccountLen)))
       \o Padding)

\* The verifier extension of the chain: the status code of verify.
InputChunk(inputs, i) == SubSeq(inputs, i * AccountLen + 1, (i + 1) * AccountLen)

verify(vk_hash, pf, inputs) ==
    IF \A vk \in VkStorage : KeyHash(vk) # vk_hash
    THEN "VERIFY_UNKNOWN_IDENTIFIER"
    ELSE IF pf.kind # "proof"
    THEN "VERIFY_INCORRECT_PROOF"
    ELSE IF \/ Len(inputs) # 3 * AccountLen
            \/ \E i \in Rows : from_le_bytes(InputChunk(inputs, i)) >= Modulus
    THEN "VERIFY_DESERIALIZING_INPUT_FAIL"
    ELSE LET vk == CHOOSE k \in VkStorage : KeyHash(k) = vk_hash
             instances == [i \in Rows |-> from_le_bytes(InputChunk(inputs, i))]
         IN  IF verify_proof(vk, instances, pf) THEN "VERIFY_SUCCESS"
             ELSE "VERIFY_VERIFICATION_FAIL"

\* Every status of the extension's verify: the statuses of the chain's
\* verifier, and a status that is none of them.
StatusCodes ==
    {"VERIFY_SUCCESS", "VERIFY_UNKNOWN_IDENTIFIER", "VERIFY_INCORRECT_PROOF",
     "VERIFY_DESERIALIZING_INPUT_FAIL", "VERIFY_VERIFICATION_FAIL", "OTHER_STATUS"}

\* Mutant of verify_map_err: the error tells the status of the verifier.
verify_map_err_with_status(status) ==
    IF status = "VERIFY_SUCCESS" THEN Ok("unit")
    ELSE Err(<<"InvalidProofForMinAgeRequired", status>>)

\* .verify(..).map_err(|_| Error::InvalidProofForMinAgeRequired): the result
\* of the extension's verify, as verify_proof returns it.
verify_map_err(status) ==
    IF status = "VERIFY_SUCCESS" THEN Ok("unit")
    ELSE Err(<<"InvalidProofForMinAgeRequired">>)

\* Mutant of Subscriptions_verify_proof: the status of the verifier is dropped.
Subscriptions_verify_proof_unchecked(vk_hash, min_required_age, caller, pf) ==
    Ok("unit")

\* Subscriptions::verify_proof
Subscriptions_verify_proof(vk_hash, min_required_age, caller, pf) ==
    LET inputs == proof_public_inputs(min_required_age, caller)
    IN  IF inputs.kind = "Err" THEN inputs
        ELSE verify_map_err(verify(vk_hash, pf, inputs.value))

\* What a message leaves behind: its return value, the storage, the
\* transfers and events it made, and the status the verifier gave it
\* ("none" when the verifier was not called).
Reverted(e, status) ==
    [ret |-> Err(e), subscriptions |-> subscriptions,
     active_subscriptions |-> active_subscriptions,
     transfers |-> <<>>, emitted |-> <<>>, verifier |-> status]

\* Mutant of is_registered: the check of an existing subscription is missing.
is_registered_never(caller) == FALSE

\* self.subscriptions.get(caller).is_some()
is_registered(caller) == caller \in DOMAIN subscriptions

\* Mutant of new_subscription: every declared interval is recorded as paid.
new_subscription_all_paid(payment_interval, intervals_to_pay, price, curr_block, external_channel_handle) ==
    [payment_interval |-> payment_interval,
     declared_payment_intervals |-> intervals_to_pay,
     paid_intervals |-> intervals_to_pay,
     price_per_interval |-> price,
     registered_at |-> curr_block,
     last_payment_at |-> curr_block,
     external_channel_handle |-> external_channel_handle]

\* The Subscription record that add_subscription creates.
new_subscription(payment_interval, intervals_to_pay, price, curr_block, external_channel_handle) ==
    [payment_interval |-> payment_interval,
     declared_payment_intervals |-> intervals_to_pay,
     paid_intervals |-> 1,
     price_per_interval |-> price,
     registered_at |-> curr_block,
     last_payment_at |-> curr_block,
     external_channel_handle |-> external_channel_handle]

\* Subscriptions::add_subscription, given what verify_proof returns and the
\* status the extension gave.
add_subscription_verified(caller, payment_interval, intervals_to_pay, external_channel_handle, proof_ok, status, transferred_value) ==
    LET intervals_ok == validate_intervals_to_pay(intervals_to_pay)
        handle_ok == validate_channel_handle(external_channel_handle)
        curr_block == block_number
        price == price_per_interval(price_per_block, payment_interval)
        subscription ==
            new_subscription(payment_interval, intervals_to_pay, price, curr_block,
                             external_channel_handle)
    IN  IF is_registered(caller)
        THEN Reverted(<<"AlreadyRegisterred", caller>>, "none")
        ELSE IF intervals_ok.kind = "Err" THEN Reverted(intervals_ok.error, "none")
        ELSE IF handle_ok.kind = "Err" THEN Reverted(handle_ok.error, "none")
        ELSE IF proof_ok.kind = "Err" THEN Reverted(proof_ok.error, status)
        ELSE IF transferred_value < price * intervals_to_pay
        THEN Reverted(<<"SubscriptionCostTooHigh", price * intervals_to_pay>>, status)
        ELSE [ret |-> Ok("unit"),
              subscriptions |-> (caller :> subscription) @@ subscriptions,
              active_subscriptions |-> Append(active_subscriptions, caller),
              transfers |->
                 <<[to |-> owner, amount |-> price],
                   [to |-> caller,
                    amount |-> transferred_value - price * intervals_to_pay]>>,
              emitted |->
                 <<[event |-> "NewSubscription", for_account |-> caller,
                    external_channel_handle |-> into_bytes(external_channel_handle)]>>,
              verifier |-> status]

\* Subscriptions::add_subscription on the chain, whose extension verifies
\* the proof against the registered key.
add_subscription(caller, payment_interval, intervals_to_pay, external_channel_handle, pf, transferred_value) ==
    add_subscription_verified(
        caller, payment_interval, intervals_to_pay, external_channel_handle,
        Subscriptions_verify_proof(proof_vk, proof_min_required_age, caller, pf),
        verify(proof_vk, pf, proof_public_inputs(proof_min_required_age, caller).value),
        transferred_value)

\* Subscriptions::add_subscription in the tests, whose extension is
\* MockZKPVerifier: the status is expected_result whatever the proof.
add_subscription_mocked(expected_result, caller, payment_interval, intervals_to_pay, external_channel_handle, transferred_value) ==
    LET inputs == proof_public_inputs(proof_min_required_age, caller)
    IN  add_subscription_verified(
            caller, payment_interval, intervals_to_pay, external_channel_handle,
            IF inputs.kind = "Err" THEN inputs ELSE verify_map_err(expected_result),
            expected_result, transferred_value)

\* Mutants of to_pay_intervals: at most one interval is counted; a started
\* interval counts as a whole one.
to_pay_intervals_at_most_one(payment_interval, curr_block, last_payment_at) ==
    IF curr_block - last_payment_at
          >= (IF payment_interval = "Week" THEN BLOCKS_PER_WEEK ELSE BLOCKS_PER_MONTH)
    THEN 1 ELSE 0

to_pay_intervals_started(payment_interval, curr_block, last_payment_at) ==
    LET blocks == IF payment_interval = "Week" THEN BLOCKS_PER_WEEK
                  ELSE BLOCKS_PER_MONTH
    IN  (curr_block - last_payment_at + blocks - 1) \div blocks

\* Mutant of funds_insufficient: a subscription whose remaining intervals
\* just cover the due ones is cancelled too.
funds_insufficient_or_exact(sub, due) ==
    sub.declared_payment_intervals - sub.paid_intervals <= due

\* s.declared_payment_intervals - s.paid_intervals < to_pay_intervals
funds_insufficient(sub, due) ==
    sub.declared_payment_intervals - sub.paid_intervals < due

\* Mutant of authorized: any caller is let through.
authorized_anyone(caller) == Ok("unit")

\* Subscriptions::authorized
authorized(caller) ==
    IF caller # owner THEN Err(<<"NotAuthorized">>) ELSE Ok("unit")

\* Subscriptions::to_pay_intervals
to_pay_intervals(payment_interval, curr_block, last_payment_at) ==
    (curr_block - last_payment_at)
        \div (CASE payment_interval = "Week" -> BLOCKS_PER_WEEK
                [] payment_interval = "Month" -> BLOCKS_PER_MONTH)

\* Mutant of ActiveSubscriptionAttr: the handle is left out.
ActiveSubscriptionAttr_without_handle(acct_id, external_channel_handle) ==
    [for_account |-> acct_id, external_channel_handle |-> <<>>]

ActiveSubscriptionAttr(acct_id, external_channel_handle) ==
    [for_account |-> acct_id, external_channel_handle |-> external_channel_handle]

\* The first loop of payment_settlement, from the i-th active subscription
\* on: subs is the mapping and paid the transfers so far, subs_to_cancel the
\* list of subscriptions to cancel.
RECURSIVE settle_from(_, _, _, _, _)
settle_from(i, curr_block, subs, paid, subs_to_cancel) ==
    IF i > Len(active_subscriptions)
    THEN [ret |-> Ok("unit"), subscriptions |-> subs, transfers |-> paid,
          subs_to_cancel |-> subs_to_cancel]
    ELSE LET acct_id == active_subscriptions[i]
         IN  IF acct_id \notin DOMAIN subs
             THEN [ret |-> Err(<<"InconsistentSubscriptionData", acct_id>>)]
             ELSE
             LET sub == subs[acct_id]
                 due == to_pay_intervals(sub.payment_interval, curr_block,
                                         sub.last_payment_at)
                 left == sub.declared_payment_intervals - sub.paid_intervals
                 cancel == funds_insufficient(sub, due)
                 to_pay_now == IF cancel THEN left ELSE due
                 to_pay == sub.price_per_interval * to_pay_now
                 paid_now == IF to_pay > 0
                             THEN Append(paid, [to |-> owner, amount |-> to_pay])
                             ELSE paid
                 charged == [sub EXCEPT !.paid_intervals = @ + to_pay_now,
                                        !.last_payment_at = curr_block]
             IN  IF due = 0
                 THEN settle_from(i + 1, curr_block, subs, paid, subs_to_cancel)
                 ELSE IF cancel
                 THEN settle_from(i + 1, curr_block, subs, paid_now,
                                  Append(subs_to_cancel,
                                         ActiveSubscriptionAttr(
                                            acct_id,
                                            into_bytes(charged.external_channel_handle))))
                 ELSE settle_from(i + 1, curr_block,
                                  [subs EXCEPT ![acct_id] = charged], paid_now,
                                  subs_to_cancel)

\* Subscriptions::payment_settlement
payment_settlement(caller) ==
    IF authorized(caller).kind = "Err" THEN Reverted(authorized(caller).error, "none")
    ELSE LET curr_block == block_number
             charged == settle_from(1, curr_block, subscriptions, <<>>, <<>>)
         IN  IF charged.ret.kind = "Err" THEN Reverted(charged.ret.error, "none")
             ELSE LET cancelled ==
                         {charged.subs_to_cancel[j].for_account :
                             j \in 1..Len(charged.subs_to_cancel)}
                  IN  [ret |-> Ok("unit"),
                       subscriptions |->
                          [acct \in DOMAIN charged.subscriptions \ cancelled |->
                              charged.subscriptions[acct]],
                       active_subscriptions |->
                          SelectSeq(active_subscriptions,
                                    LAMBDA id : id \notin cancelled),
                       transfers |-> charged.transfers,
                       emitted |->
                          IF Len(charged.subs_to_cancel) # 0
                          THEN <<[event |-> "CancelledSubscriptions",
                                  for_accounts |-> charged.subs_to_cancel]>>
                          ELSE <<>>,
                       verifier |-> "none"]

\* Subscriptions::get_active_subscriptions
get_active_subscriptions ==
    LET missing == {i \in DOMAIN active_subscriptions :
                       active_subscriptions[i] \notin DOMAIN subscriptions}
    IN  IF missing # {}
        THEN LET first == CHOOSE i \in missing : \A j \in missing : i <= j
             IN  Err(<<"InconsistentSubscriptionData", active_subscriptions[first]>>)
        ELSE Ok([i \in DOMAIN active_subscriptions |->
                    ActiveSubscriptionAttr(
                       active_subscriptions[i],
                       into_bytes(subscriptions[active_subscriptions[i]]
                                     .external_channel_handle))])

\* Mutant of transfer_ownership: the new owner is not compared with the owner.
transfer_ownership_unchecked(caller, new_owner) ==
    IF authorized(caller).kind = "Err"
    THEN [ret |-> authorized(caller), owner |-> owner]
    ELSE [ret |-> Ok("unit"), owner |-> new_owner]

\* Subscriptions::transfer_ownership
transfer_ownership(caller, new_owner) ==
    IF authorized(caller).kind = "Err"
    THEN [ret |-> authorized(caller), owner |-> owner]
    ELSE IF new_owner = owner
    THEN [ret |-> Err(<<"NewOwnerMustBeDifferent">>), owner |-> owner]
    ELSE [ret |-> Ok("unit"), owner |-> new_owner]

\* The message panicked: the chain reverts it.
Trap == [kind |-> "Trap"]

\* self.env().set_code_hash: fails for a hash under which no code is stored.
set_code_hash(hash) ==
    IF hash \in UploadedCode THEN Ok(hash) ELSE Err(<<"CodeNotFound">>)

\* Mutant of set_code: the caller is not checked.
set_code_unauthorized(caller, hash) ==
    IF set_code_hash(hash).kind = "Err"
    THEN [ret |-> Trap, code_hash |-> code_hash]
    ELSE [ret |-> Ok("unit"), code_hash |-> hash]

\* Subscriptions::set_code
set_code(caller, hash) ==
    IF authorized(caller).kind = "Err"
    THEN [ret |-> authorized(caller), code_hash |-> code_hash]
    ELSE IF set_code_hash(hash).kind = "Err"
    THEN [ret |-> Trap, code_hash |-> code_hash]
    ELSE [ret |-> Ok("unit"), code_hash |-> hash]

\* Mutant of remaining_value: the intervals already paid are not deducted.
remaining_value_declared(subscription) ==
    subscription.price_per_interval * subscription.declared_payment_intervals

\* The value of the declared intervals that are not paid yet, which
\* cancel_subscription returns.
remaining_value(subscription) ==
    IF subscription.declared_payment_intervals > subscription.paid_intervals
    THEN subscription.price_per_interval
            * (subscription.declared_payment_intervals - subscription.paid_intervals)
    ELSE 0

\* Mutant of cancel_subscription: the caller stays in active_subscriptions.
cancel_subscription_keeps_active(caller, transferred_value) ==
    IF caller \notin DOMAIN subscriptions
    THEN Reverted(<<"NotRegisterred", caller>>, "none")
    ELSE [ret |-> Ok("unit"),
          subscriptions |->
             [acct \in DOMAIN subscriptions \ {caller} |-> subscriptions[acct]],
          active_subscriptions |-> active_subscriptions,
          transfers |->
             IF remaining_value(subscriptions[caller]) + transferred_value > 0
             THEN <<[to |-> caller,
                     amount |-> remaining_value(subscriptions[caller])
                                   + transferred_value]>>
             ELSE <<>>,
          emitted |-> <<[event |-> "CancelledSubscription", for_account |-> caller]>>,
          verifier |-> "none"]

\* Subscriptions::cancel_subscription
cancel_subscription(caller, transferred_value) ==
    IF caller \notin DOMAIN subscriptions
    THEN Reverted(<<"NotRegisterred", caller>>, "none")
    ELSE LET subscription == subscriptions[caller]
             to_return == remaining_value(subscription) + transferred_value
         IN  [ret |-> Ok("unit"),
              subscriptions |->
                 [acct \in DOMAIN subscriptions \ {caller} |-> subscriptions[acct]],
              active_subscriptions |->
                 SelectSeq(active_subscriptions, LAMBDA acct : acct # caller),
              transfers |->
                 IF to_return > 0 THEN <<[to |-> caller, amount |-> to_return]>>
                 ELSE <<>>,
              emitted |-> <<[event |-> "CancelledSubscription", for_account |-> caller]>>,
              verifier |-> "none"]

\* The values a caller may transfer with add_subscription: the cost of the
\* subscription, one unit less and one unit more.
TransferredValues(payment_interval, intervals_to_pay) ==
    LET cost == price_per_interval(price_per_block, payment_interval) * intervals_to_pay
    IN  {cost, cost + 1} \cup (IF cost > 0 THEN {cost - 1} ELSE {})

Committed(op, caller, args, r) ==
    /\ subscriptions' = r.subscriptions
    /\ active_subscriptions' = r.active_subscriptions
    /\ call' = [op |-> op, caller |-> caller, args |-> args, verifier |-> r.verifier]
    /\ ret' = r.ret
    /\ transfers' = r.transfers
    /\ emitted' = r.emitted

\* The arguments of add_subscription, as the call log keeps them.
AddArgs(payment_interval, intervals_to_pay, external_channel_handle, pf, transferred_value) ==
    [payment_interval |-> payment_interval, intervals_to_pay |-> intervals_to_pay,
     external_channel_handle |-> external_channel_handle, proof |-> pf,
     transferred_value |-> transferred_value]

\* A call with no interval to pay or with an empty handle is made with one
\* proof and one transferred value; every other call, by a subscriber or
\* not, with each proof and each value.
WellFormed(intervals_to_pay, external_channel_handle) ==
    /\ intervals_to_pay # 0
    /\ ~is_empty(external_channel_handle)

AddSubscription ==
    /\ call = NoCall
    /\ \E caller \in LedgerAccounts, payment_interval \in PaymentIntervals,
          intervals_to_pay \in 0..MaxIntervals, external_channel_handle \in Handles :
          IF WellFormed(intervals_to_pay, external_channel_handle)
          THEN \E pf \in ProofsOf[caller],
                  transferred_value \in
                     TransferredValues(payment_interval, intervals_to_pay) :
                  Committed("add_subscription", caller,
                            AddArgs(payment_interval, intervals_to_pay,
                                    external_channel_handle, pf, transferred_value),
                            add_subscription(caller, payment_interval, intervals_to_pay,
                                             external_channel_handle, pf,
                                             transferred_value))
          ELSE Committed("add_subscription", caller,
                         AddArgs(payment_interval, intervals_to_pay,
                                 external_channel_handle, NotAProof, 0),
                         add_subscription(caller, payment_interval, intervals_to_pay,
                                          external_channel_handle, NotAProof, 0))
    /\ UNCHANGED <<owner, price_per_block, proof_vk, proof_min_required_age,
                   block_number, code_hash, engine_vars, client_vars>>

\* add_subscription with the proof of the tests, under a MockZKPVerifier
\* registered with any status.
AddSubscriptionMocked ==
    /\ call = NoCall
    /\ \E expected_result \in StatusCodes, caller \in LedgerAccounts,
          payment_interval \in PaymentIntervals,
          intervals_to_pay \in 0..MaxIntervals, external_channel_handle \in Handles :
          \E transferred_value \in TransferredValues(payment_interval, intervals_to_pay) :
             Committed("add_subscription", caller,
                       AddArgs(payment_interval, intervals_to_pay,
                               external_channel_handle, NotAProof, transferred_value),
                       add_subscription_mocked(expected_result, caller, payment_interval,
                                               intervals_to_pay, external_channel_handle,
                                               transferred_value))
    /\ UNCHANGED <<owner, price_per_block, proof_vk, proof_min_required_age,
                   block_number, code_hash, engine_vars, client_vars>>

CancelSubscription ==
    /\ call = NoCall
    /\ \E caller \in LedgerAccounts, transferred_value \in {0, 1} :
          Committed("cancel_subscription", caller,
                    [transferred_value |-> transferred_value],
                    cancel_subscription(caller, transferred_value))
    /\ UNCHANGED <<owner, price_per_block, proof_vk, proof_min_required_age,
                   block_number, code_hash, engine_vars, client_vars>>

PaymentSettlement ==
    /\ call = NoCall
    /\ \E caller \in LedgerAccounts :
          Committed("payment_settlement", caller, <<>>, payment_settlement(caller))
    /\ UNCHANGED <<owner, price_per_block, proof_vk, proof_min_required_age,
                   block_number, code_hash, engine_vars, client_vars>>

TransferOwnership ==
    /\ call = NoCall
    /\ \E caller \in LedgerAccounts, new_owner \in LedgerAccounts :
          LET r == transfer_ownership(caller, new_owner)
          IN  /\ owner' = r.owner
              /\ call' = [op |-> "transfer_ownership", caller |-> caller,
                          args |-> [new_owner |-> new_owner], verifier |-> "none"]
              /\ ret' = r.ret
    /\ transfers' = <<>>
    /\ emitted' = <<>>
    /\ UNCHANGED <<price_per_block, subscriptions, active_subscriptions, proof_vk,
                   proof_min_required_age, block_number, code_hash, engine_vars,
                   client_vars>>

GetActiveSubscriptions ==
    /\ call = NoCall
    /\ \E caller \in LedgerAccounts :
          call' = [op |-> "get_active_subscriptions", caller |-> caller,
                   args |-> <<>>, verifier |-> "none"]
    /\ ret' = get_active_subscriptions
    /\ transfers' = <<>>
    /\ emitted' = <<>>
    /\ UNCHANGED <<storage_vars, block_number, code_hash, engine_vars, client_vars>>

SetCode ==
    /\ call = NoCall
    /\ \E caller \in LedgerAccounts, hash \in CodeHashes :
          LET r == set_code(caller, hash)
          IN  /\ code_hash' = r.code_hash
              /\ call' = [op |-> "set_code", caller |-> caller,
                          args |-> [code_hash |-> hash], verifier |-> "none"]
              /\ ret' = r.ret
    /\ transfers' = <<>>
    /\ emitted' = <<>>
    /\ UNCHANGED <<storage_vars, block_number, engine_vars, client_vars>>

\* The message has returned and its outcome has been read: the next message
\* starts with an empty log.
EndOfCall ==
    /\ call # NoCall
    /\ call' = NoCall
    /\ ret' = NoRet
    /\ transfers' = <<>>
    /\ emitted' = <<>>
    /\ UNCHANGED <<storage_vars, block_number, code_hash, engine_vars, client_vars>>

\* The block numbers of the settlement runs: whole weeks and months after
\* block 0.
BlockNumbers ==
    {w * BLOCKS_PER_WEEK + m * BLOCKS_PER_MONTH :
        w \in 0..MaxSettledWeeks, m \in 0..MaxMonths}

\* The chain produces blocks, a week or a month of them between two
\* messages.
AdvanceTime ==
    /\ call = NoCall
    /\ \E blocks \in {BLOCKS_PER_WEEK, BLOCKS_PER_MONTH} :
          /\ block_number + blocks \in BlockNumbers
          /\ block_number' = block_number + blocks
    /\ UNCHANGED <<storage_vars, call, ret, transfers, emitted, code_hash,
                   engine_vars, client_vars>>

\* The chain produces blocks: self.env().block_number() grows, here by a
\* week of blocks at a time.
AdvanceBlocks ==
    /\ block_number < MaxWeeks * BLOCKS_PER_WEEK
    /\ block_number' = block_number + BLOCKS_PER_WEEK
    /\ call' = NoCall
    /\ ret' = NoRet
    /\ transfers' = <<>>
    /\ emitted' = <<>>
    /\ UNCHANGED <<storage_vars, code_hash, engine_vars, client_vars>>

LedgerNext ==
    \/ AddSubscription
    \/ CancelSubscription
    \/ AdvanceBlocks
    \/ EndOfCall

\* Subscriptions::new as the tests with the mocked verifier call it: with
\* PROOF_VK_HASH and MIN_REQUIRED_AGE, at the price of 0 or of 1 per block.
MockInit ==
    /\ owner = ACCOUNT
    /\ price_per_block \in Prices
    /\ subscriptions = NoSubscriptions
    /\ active_subscriptions = <<>>
    /\ proof_vk = PROOF_VK_HASH
    /\ proof_min_required_age = REQUIRED_AGE_18
    /\ block_number = 0
    /\ call = NoCall
    /\ ret = NoRet
    /\ transfers = <<>>
    /\ emitted = <<>>
    /\ code_hash = DeployedCode

MockNext ==
    \/ AddSubscriptionMocked
    \/ CancelSubscription
    \/ EndOfCall

\* Subscriptions::new as the tests of settlement call it: with the price of
\* one unit per block, and with a key and a minimum age under which the
\* subscribers' proofs verify.
BillingInit ==
    /\ owner = ACCOUNT
    /\ price_per_block = 1
    /\ subscriptions = NoSubscriptions
    /\ active_subscriptions = <<>>
    /\ proof_vk = KeyHash(vk_of(generate_setup(REQUIRED_AGE_18)))
    /\ proof_min_required_age = REQUIRED_AGE_18
    /\ block_number = 0
    /\ call = NoCall
    /\ ret = NoRet
    /\ transfers = <<>>
    /\ emitted = <<>>
    /\ code_hash = DeployedCode

\* The channel handle each subscriber registers with ("1111" and "2222" in
\* the tests of settlement).
ChannelOf(caller) ==
    IF caller = ACCOUNT THEN String(<<1, 1, 1, 1>>) ELSE String(<<2, 2, 2, 2>>)

\* add_subscription by a subscriber who holds a proof for the contract's
\* minimum age and pays the cost of the subscription.
Subscribe ==
    /\ call = NoCall
    /\ \E caller \in LedgerAccounts, payment_interval \in PaymentIntervals,
          intervals_to_pay \in 1..MaxDeclared :
          LET pf == generate_proof(proof_min_required_age,
                                   generate_setup(proof_min_required_age),
                                   TEST_AGE, caller)
              transferred_value ==
                 price_per_interval(price_per_block, payment_interval) * intervals_to_pay
          IN  Committed("add_subscription", caller,
                        AddArgs(payment_interval, intervals_to_pay, ChannelOf(caller),
                                pf, transferred_value),
                        add_subscription(caller, payment_interval, intervals_to_pay,
                                         ChannelOf(caller), pf, transferred_value))
    /\ UNCHANGED <<owner, price_per_block, proof_vk, proof_min_required_age,
                   block_number, code_hash, engine_vars, client_vars>>

BillingNext ==
    \/ Subscribe
    \/ CancelSubscription
    \/ PaymentSettlement
    \/ GetActiveSubscriptions
    \/ TransferOwnership
    \/ AdvanceTime
    \/ EndOfCall

(***************************************************************************)
(* The proof engine as a state machine: a prover (honest, or one that      *)
(* commits to cells of its own choice) produces a proof, and a verifier    *)
(* checks it with the key of some policy and some public input.            *)
(***************************************************************************)
Permutations3 ==
    {p \in [Rows -> Rows] : \A i, j \in Rows : i # j => p[i] # p[j]}

permuted(instances, p) == [i \in Rows |-> instances[p[i]]]

ForgedAges == {REQUIRED_AGE_18 - 1, RANGE_TO, 6}

EngineInit ==
    /\ proof = NoProof
    /\ outcome = NoOutcome

Init ==
    /\ EngineInit
    /\ ClientIdle
    /\ LedgerIdle

\* proofs.rs tests, generate_proof::<REQUIRED_AGE>(age, for_account): a setup
\* of the policy, then the proof of the honest prover.
GenerateProof ==
    /\ proof = NoProof
    /\ \E P \in Policies, age \in Ages, acc \in Accounts :
          proof' = [p      |-> generate_proof(P, generate_setup(P), age, acc),
                    honest |-> TRUE, policy |-> P, age |-> age, account |-> acc]
    /\ outcome' = NoOutcome
    /\ UNCHANGED <<client_vars, ledger_vars>>

\* A prover that runs the proving algorithm on cells of its own choice: the
\* row-0 cells of the value column and of column a.
ForgeProof ==
    /\ proof = NoProof
    /\ \E v \in ForgedAges, a0 \in Fp :
          proof' =
             [p |-> [kind |-> "proof", vk |-> vk_of(generate_setup(REQUIRED_AGE_18)),
                     advice |-> [assign_advice(REQUIRED_AGE_18, from_u128(v),
                                               public_input(REQUIRED_AGE_18, ACCOUNT))
                                    EXCEPT !.a[0] = a0]],
              honest |-> FALSE, policy |-> REQUIRED_AGE_18, age |-> v,
              account |-> ACCOUNT]
    /\ outcome' = NoOutcome
    /\ UNCHANGED <<client_vars, ledger_vars>>

Check(Q, instances) ==
    /\ outcome' =
          [kind |-> "outcome", policy |-> Q, instances |-> instances,
           ok |-> validate([proof |-> proof.p, instances |-> instances,
                            vk |-> vk_of(generate_setup(Q))])]
    /\ UNCHANGED proof
    /\ UNCHANGED <<client_vars, ledger_vars>>

\* validate with the key of policy Q and the public input of some policy and
\* account.
Validate ==
    /\ proof # NoProof
    /\ outcome = NoOutcome
    /\ \E Q \in Policies, T \in Policies, acc \in Accounts :
          Check(Q, public_input(T, acc))

\* validate with the values of the prover's public input in some order.
ValidateReordered ==
    /\ proof # NoProof
    /\ outcome = NoOutcome
    /\ \E Q \in Policies, p \in Permutations3 :
          Check(Q, permuted(public_input(proof.policy, proof.account), p))

Next ==
    \/ GenerateProof
    \/ ForgeProof
    \/ Validate
    \/ ValidateReordered

Spec == Init /\ [][Next]_vars

ClientSpecInit ==
    /\ ClientInit
    /\ EngineInit
    /\ LedgerIdle

ClientSpec == ClientSpecInit /\ [][ClientNext]_vars

\* The client with the setup file it wrote itself, which is damaged or
\* altered between its operations.
FilesInit ==
    /\ ClientInit
    /\ EngineInit
    /\ LedgerIdle

FilesNext ==
    \/ ClientGenerateSetup
    \/ ClientLoadSetup
    \/ ClientGenerateProof
    \/ ClientRegisterVk
    \/ DamageSetupFile
    \/ AlterSetupFile

FilesSpec == FilesInit /\ [][FilesNext]_vars

LedgerSpecInit ==
    /\ LedgerInit
    /\ EngineInit
    /\ ClientIdle

LedgerSpec == LedgerSpecInit /\ [][LedgerNext]_vars

BillingSpecInit ==
    /\ BillingInit
    /\ EngineInit
    /\ ClientIdle

BillingSpec == BillingSpecInit /\ [][BillingNext]_vars

\* The contract with subscribers, changes of owner and upgrades of its code.
UpgradeInit ==
    /\ BillingInit
    /\ EngineInit
    /\ ClientIdle

UpgradeNext ==
    \/ Subscribe
    \/ CancelSubscription
    \/ TransferOwnership
    \/ SetCode
    \/ EndOfCall

UpgradeSpec == UpgradeInit /\ [][UpgradeNext]_vars

\* The contract of the tests, with the mocked verifier.
MockSpecInit ==
    /\ MockInit
    /\ EngineInit
    /\ ClientIdle

MockSpec == MockSpecInit /\ [][MockNext]_vars

(***************************************************************************)
(* Setup requests of any shape: Setup::generate for a threshold and a size *)
(* parameter k, then a proof under that setup and its verification with    *)
(* the setup's own key.  Key generation fails when the 2^k rows do not     *)
(* hold the rows the circuit assigns beside the rows the proving system    *)
(* keeps for itself (six, for a circuit that queries each advice column    *)
(* once per row).                                                          *)
(***************************************************************************)
ShapeKs == 1..MaxK

enough_rows(k) == 2^k - 6 >= Cardinality(Rows)

keygen_vk(RANGE_FROM, k) ==
    IF enough_rows(k) THEN Ok([k |-> k, range_from |-> RANGE_FROM])
    ELSE Err("NotEnoughRowsAvailable")

\* Setup::generate, with its errors.
Setup_try_generate(RANGE_FROM, k) ==
    IF keygen_vk(RANGE_FROM, k).kind = "Err" THEN Err("vk generation failed")
    ELSE Ok(Setup_generate(RANGE_FROM, k))

ShapeAges(RANGE_FROM) == {RANGE_FROM - 1, RANGE_FROM, RANGE_TO - 1, RANGE_TO}

ShapeInit ==
    /\ EngineInit
    /\ ClientIdle
    /\ LedgerIdle

ShapeGenerateSetup ==
    /\ result = NoResult
    /\ \E RANGE_FROM \in ShapePolicies, k \in ShapeKs :
          LET r == Setup_try_generate(RANGE_FROM, k)
              shape == [policy |-> RANGE_FROM, k |-> k]
          IN  /\ setup' = IF r.kind = "Ok"
                          THEN Some([s |-> r.value, made_for |-> shape])
                          ELSE None
              /\ result' = [op |-> "Setup::generate", shape |-> shape,
                            ret |-> IF r.kind = "Ok" THEN Ok("Setup") ELSE r]
    /\ UNCHANGED <<required_age, setup_file, proof_file, vk_storage, engine_vars,
                   ledger_vars>>

ShapeGenerateProof ==
    /\ setup # None
    /\ proof = NoProof
    /\ \E age \in ShapeAges(setup.value.s.range_from), acc \in ClientAccounts :
          LET P == setup.value.s.range_from
          IN  proof' = [p |-> generate_proof(P, setup.value.s, age, acc),
                        honest |-> TRUE, policy |-> P, age |-> age, account |-> acc]
    /\ UNCHANGED <<outcome, client_vars, ledger_vars>>

ShapeValidate ==
    /\ proof # NoProof
    /\ outcome = NoOutcome
    /\ LET instances == public_input(proof.policy, proof.account)
       IN  outcome' =
              [kind |-> "outcome", policy |-> proof.policy, instances |-> instances,
               ok |-> validate([proof |-> proof.p, instances |-> instances,
                                vk |-> vk_of(setup.value.s)])]
    /\ UNCHANGED <<proof, client_vars, ledger_vars>>

ShapeNext ==
    \/ ShapeGenerateSetup
    \/ ShapeGenerateProof
    \/ ShapeValidate

ShapeSpec == ShapeInit /\ [][ShapeNext]_vars

(***************************************************************************)
(* Properties of the proof engine.                                         *)
(***************************************************************************)
InRange(P, age) == P <= age /\ age < RANGE_TO

Checked == proof # NoProof /\ outcome # NoOutcome

\* The verifier used the key of the prover's policy.
OwnKey == outcome.policy = proof.policy

\* The verifier used the key and the public input of the prover's own triple.
OwnCheck ==
    /\ Checked
    /\ proof.honest
    /\ OwnKey
    /\ outcome.instances = public_input(proof.policy, proof.account)

\* C1 (completeness): the proof the honest prover generates for an age in
\* [RANGE_FROM, RANGE_TO), boundaries included, and any account is accepted
\* with the setup's verifying key and public_input of that account.
C1_Completeness ==
    (OwnCheck /\ InRange(proof.policy, proof.age)) => outcome.ok

C1_Witness ==
    /\ OwnCheck
    /\ proof.age = proof.policy
    /\ outcome.ok

C1_WitnessUpper ==
    /\ OwnCheck
    /\ proof.age = RANGE_TO - 1
    /\ outcome.ok

\* C2 (range soundness for the honest prover): for an age below RANGE_FROM or
\* at least RANGE_TO, generate_proof still returns a proof, and that proof is
\* rejected with the setup's verifying key and public_input of the account.
C2_RangeSoundness ==
    /\ (proof = NoProof) =>
          \A P \in Policies, age \in Ages, acc \in Accounts :
             generate_proof(P, generate_setup(P), age, acc).kind = "proof"
    /\ (OwnCheck /\ ~InRange(proof.policy, proof.age)) => ~outcome.ok

C2_Witness ==
    /\ OwnCheck
    /\ proof.age = RANGE_TO
    /\ ~outcome.ok

\* C3 (soundness against any prover): a proof that is accepted with the key
\* of its policy and the instance (RANGE_FROM, accountLow, accountHigh) has a
\* row-0 value in [RANGE_FROM, RANGE_TO), and its row-0 cell of column a is
\* RANGE_FROM.
C3_SoundnessAnyProver ==
    (/\ Checked /\ OwnKey /\ outcome.ok
     /\ outcome.instances = public_input(proof.policy, proof.account)) =>
        /\ \E age \in Ages :
              /\ InRange(proof.policy, age)
              /\ proof.p.advice.value[0] = from_u128(age)
        /\ proof.p.advice.a[0] = from_u128(proof.policy)

\* C4 (identity binding): the proof for account X is rejected with
\* public_input(Y) for every account Y other than X, and public_input maps
\* distinct accounts to distinct vectors.
PublicInputInjective ==
    \A P \in Policies, X, Y \in Accounts :
       X # Y => public_input(P, X) # public_input(P, Y)

C4_IdentityBinding ==
    /\ PublicInputInjective
    /\ (Checked /\ proof.honest /\ OwnKey) =>
          \A Y \in Accounts :
             (Y # proof.account /\ outcome.instances = public_input(proof.policy, Y))
                => ~outcome.ok

C4_Witness ==
    /\ Checked /\ proof.honest /\ OwnKey
    /\ InRange(proof.policy, proof.age)
    /\ proof.account = ACCOUNT
    /\ \E j \in 1..AccountLen :
          outcome.instances = public_input(proof.policy, [ACCOUNT EXCEPT ![j] = 2])
    /\ ~outcome.ok

\* C5 (policy binding): the proof for an in-range age under threshold 18 is
\* rejected with a public input whose first element is another threshold,
\* the verifying key and the account being those of the proof.
C5_PolicyBinding ==
    (/\ Checked /\ proof.honest /\ OwnKey
     /\ proof.policy = REQUIRED_AGE_18
     /\ InRange(proof.policy, proof.age)) =>
        \A T \in Policies :
           (T # proof.policy /\ outcome.instances = public_input(T, proof.account))
              => ~outcome.ok

C5_Witness ==
    /\ Checked /\ proof.honest /\ OwnKey
    /\ proof.policy = REQUIRED_AGE_18
    /\ InRange(proof.policy, proof.age)
    /\ outcome.instances = public_input(REQUIRED_AGE_21, proof.account)
    /\ ~outcome.ok

\* C6 (non-malleability): the proof of one valid triple (policy, age,
\* account) is rejected with the verifying key and the public input of
\* another valid triple, of another policy or of another account.
C6_NonMalleability ==
    (Checked /\ proof.honest /\ InRange(proof.policy, proof.age)) =>
        \A Q \in Policies, Y \in Accounts :
           (/\ <<Q, Y>> # <<proof.policy, proof.account>>
            /\ outcome.policy = Q
            /\ outcome.instances = public_input(Q, Y))
              => ~outcome.ok

C6_Witness ==
    /\ Checked /\ proof.honest
    /\ proof.policy = REQUIRED_AGE_21 /\ proof.age = 32 /\ proof.account = ACCOUNT
    /\ outcome.policy = REQUIRED_AGE_18
    /\ outcome.instances = public_input(REQUIRED_AGE_18, ACCOUNT)
    /\ ~outcome.ok

Identity3 == [i \in Rows |-> i]

Reordered ==
    {permuted(public_input(proof.policy, proof.account), p) :
        p \in Permutations3 \ {Identity3}}

\* C8 (ordering rule, as claimed): the proof is rejected with the three
\* values of its public input in any other order, for every account.
C8_AnyOtherOrderFails ==
    (Checked /\ proof.honest /\ OwnKey /\ outcome.instances \in Reordered)
        => ~outcome.ok

\* C8 (ordering rule, amended): the proof is rejected with the three values
\* of its public input in any order that gives another vector than
\* (threshold, accountLow, accountHigh).
C8_OtherVectorFails ==
    (/\ Checked /\ proof.honest /\ OwnKey
     /\ outcome.instances \in Reordered
     /\ outcome.instances # public_input(proof.policy, proof.account))
        => ~outcome.ok

C8_Witness ==
    /\ Checked /\ proof.honest /\ OwnKey
    /\ InRange(proof.policy, proof.age)
    /\ proof.account = to_le_bytes(REQUIRED_AGE_18) \o to_le_bytes(1)
    /\ proof.policy = REQUIRED_AGE_18
    /\ outcome.instances \in Reordered
    /\ outcome.instances # public_input(proof.policy, proof.account)
    /\ ~outcome.ok

(***************************************************************************)
(* Properties of the ledger contract.                                      *)
(***************************************************************************)
Rejected ==
    /\ call.op = "add_subscription"
    /\ call.verifier \notin {"none", "VERIFY_SUCCESS"}

InActive(acct) == \E i \in 1..Len(active_subscriptions) : active_subscriptions[i] = acct

\* C7 (a rejected proof registers nothing): after an add_subscription whose
\* proof the verifier did not accept, the message has returned an error, the
\* caller is in neither subscriptions nor active_subscriptions, no tokens
\* were transferred to the owner or back to the caller, and no
\* NewSubscription event was emitted.
C7_RejectedProofRegistersNothing ==
    Rejected =>
       /\ ret = Err(<<"InvalidProofForMinAgeRequired">>)
       /\ call.caller \notin DOMAIN subscriptions
       /\ ~InActive(call.caller)
       /\ transfers = <<>>
       /\ emitted = <<>>

C7_Witness ==
    /\ Rejected
    /\ call.verifier = "VERIFY_VERIFICATION_FAIL"
    /\ call.caller = INVALID_ACCOUNT
    /\ ret.kind = "Err"
    /\ active_subscriptions = <<ACCOUNT>>
    /\ DOMAIN subscriptions = {ACCOUNT}

(***************************************************************************)
(* Properties of the setup manager and of the client.                      *)
(***************************************************************************)
ShapeOf(P) == [policy |-> P, k |-> CIRCUIT_MAX_K]

\* C9 (shape-mismatch rejection): load_setup succeeds only on setup bytes
\* that were generated for the loader's policy and for k = CIRCUIT_MAX_K,
\* and generate_proof succeeds only with a Setup that was generated for the
\* prover's policy and for that k.
C9_ShapeMismatchRejected ==
    /\ (result.op = "load_setup" /\ result.ret.kind = "Ok") =>
          /\ setup_file.made_for = ShapeOf(required_age)
          /\ setup.value.made_for = ShapeOf(required_age)
    /\ (result.op = "generate_proof" /\ result.ret.kind = "Ok") =>
          /\ setup.value.made_for = ShapeOf(required_age)
          /\ proof_file.made_with = ShapeOf(required_age)

\* C10 (secure SRS): every Setup that generate_setup produced has its SRS
\* from a cryptographically secure randomness source, and no verifying key
\* that register_vk stored is backed by the SRS of the mock generator.
C10_SecureSrs ==
    /\ (setup # None) => setup.value.s.rng = "OsRng"
    /\ \A blob \in vk_storage : blob.vk.rng # "mock_rng"

InvalidShape(shape) == shape.policy >= RANGE_TO \/ ~enough_rows(shape.k)

\* C11 (invalid shape requests fail fast): Setup::generate for a threshold
\* RANGE_FROM >= RANGE_TO, or for a k too small for the circuit, returns an
\* error and yields no Setup.
C11_InvalidShapeFailsFast ==
    (result.op = "Setup::generate" /\ InvalidShape(result.shape)) =>
       /\ result.ret.kind = "Err"
       /\ setup = None

\* The blocks of one payment interval.
BlocksOf(payment_interval) ==
    IF payment_interval = "Week" THEN 604800 ELSE 18144000

\* The sum of the amounts that the transfers in a list move to an account.
RECURSIVE ReceivedBy(_, _)
ReceivedBy(acct, moved) ==
    IF moved = <<>> THEN 0
    ELSE (IF Head(moved).to = acct THEN Head(moved).amount ELSE 0)
            + ReceivedBy(acct, Tail(moved))

RECURSIVE TotalOf(_)
TotalOf(moved) ==
    IF moved = <<>> THEN 0 ELSE Head(moved).amount + TotalOf(Tail(moved))

AddSucceeded == call.op = "add_subscription" /\ ret.kind = "Ok"

\* C12 (registration effect): a successful add_subscription registers the
\* caller in subscriptions and at the end of active_subscriptions with the
\* declared intervals of the call, one paid interval, registered_at and
\* last_payment_at equal to the current block and the handle of the call,
\* and emits exactly one NewSubscription event with the caller and the
\* bytes of the handle.
C12_RegistrationEffect ==
    AddSucceeded =>
       /\ call.caller \in DOMAIN subscriptions
       /\ LET s == subscriptions[call.caller]
          IN  /\ s.declared_payment_intervals = call.args.intervals_to_pay
              /\ s.paid_intervals = 1
              /\ s.registered_at = block_number
              /\ s.last_payment_at = block_number
              /\ s.external_channel_handle = call.args.external_channel_handle
              /\ s.payment_interval = call.args.payment_interval
       /\ Len(active_subscriptions) > 0
       /\ active_subscriptions[Len(active_subscriptions)] = call.caller
       /\ Len(SelectSeq(active_subscriptions, LAMBDA acct : acct = call.caller)) = 1
       /\ emitted = <<[event |-> "NewSubscription", for_account |-> call.caller,
                       external_channel_handle |->
                          call.args.external_channel_handle.utf8]>>

\* A subscription of two intervals was registered after block 0.
C12_Witness ==
    /\ AddSucceeded
    /\ call.args.intervals_to_pay = 2
    /\ block_number > 0
    /\ subscriptions[call.caller].paid_intervals = 1

\* C13 (payment split): add_subscription succeeds only if the transferred
\* value T covers price_per_interval * n, and a call that passed every other
\* check with a smaller T fails with SubscriptionCostTooHigh of that cost;
\* on success the owner is sent one interval's price, the caller T minus the
\* cost, and the contract keeps the price of the other n - 1 intervals.
C13_PaymentSplit ==
    (call.op = "add_subscription") =>
       LET n == call.args.intervals_to_pay
           T == call.args.transferred_value
           price == price_per_block * BlocksOf(call.args.payment_interval)
       IN  /\ (ret.kind = "Ok") =>
                 /\ T >= price * n
                 /\ transfers = <<[to |-> owner, amount |-> price],
                                  [to |-> call.caller, amount |-> T - price * n]>>
                 /\ T - TotalOf(transfers) = price * (n - 1)
           /\ (T < price * n) => ret.kind = "Err"
           /\ (T < price * n /\ call.verifier = "VERIFY_SUCCESS") =>
                 ret = Err(<<"SubscriptionCostTooHigh", price * n>>)

\* A monthly subscription of two intervals was overpaid by one unit.
C13_Witness ==
    /\ AddSucceeded
    /\ call.args.intervals_to_pay = 2
    /\ call.args.payment_interval = "Month"
    /\ price_per_block > 0
    /\ transfers[1].amount = BLOCKS_PER_MONTH
    /\ transfers[2].amount = 1

\* C14 (duplicate subscription): add_subscription by a caller who has a
\* subscription returns AlreadyRegisterred(caller) whatever the other
\* arguments are, and changes neither the record, nor the active list, nor
\* a balance, nor the events.
C14_DuplicateRejected ==
    [][(call = NoCall /\ call'.op = "add_subscription"
           /\ call'.caller \in DOMAIN subscriptions) =>
          /\ ret' = Err(<<"AlreadyRegisterred", call'.caller>>)
          /\ subscriptions' = subscriptions
          /\ active_subscriptions' = active_subscriptions
          /\ transfers' = <<>>
          /\ emitted' = <<>>
          /\ UNCHANGED <<owner, price_per_block, proof_vk, proof_min_required_age>>]_vars

\* A subscriber called again with arguments that would register anybody
\* else, and once with no interval to pay.
C14_Witness ==
    /\ call.op = "add_subscription"
    /\ ret = Err(<<"AlreadyRegisterred", call.caller>>)
    /\ call.caller \in DOMAIN subscriptions
    /\ \/ /\ WellFormed(call.args.intervals_to_pay, call.args.external_channel_handle)
          /\ call.args.transferred_value
                >= price_per_block * BlocksOf(call.args.payment_interval)
                      * call.args.intervals_to_pay
       \/ call.args.intervals_to_pay = 0

\* The message that a step sends from a state with no call under way.
Sends(op) == call = NoCall /\ call'.op = op

\* The price of one interval of a subscription under the contract's price.
IntervalPrice(acct) ==
    price_per_block * BlocksOf(subscriptions[acct].payment_interval)

\* The declared intervals of a subscription that are not paid yet.
Left(acct) ==
    subscriptions[acct].declared_payment_intervals - subscriptions[acct].paid_intervals

Due(acct) ==
    (block_number - subscriptions[acct].last_payment_at)
        \div BlocksOf(subscriptions[acct].payment_interval)

\* What a settlement run charges a subscription: the due intervals, and no
\* more than the intervals that are left.
Charge(acct) ==
    IntervalPrice(acct) * (IF Due(acct) <= Left(acct) THEN Due(acct) ELSE Left(acct))

RECURSIVE Charges(_)
Charges(accts) ==
    IF accts = {} THEN 0
    ELSE LET acct == CHOOSE a \in accts : TRUE
         IN  Charge(acct) + Charges(accts \ {acct})

\* A settlement run by the owner.
Settles == Sends("payment_settlement") /\ call'.caller = owner

\* C16 (settlement charge step): in a settlement run, a subscription with
\* d = floor((current block - last_payment_at) / interval) >= 1 and
\* d <= declared - paid has paid_intervals increased by d and
\* last_payment_at set to the current block, stays registered and active,
\* and the owner receives price_per_interval * d for it.
C16_ChargeStep ==
    [][Settles =>
          /\ \A acct \in DOMAIN subscriptions :
                (Due(acct) >= 1 /\ Due(acct) <= Left(acct)) =>
                   /\ acct \in DOMAIN subscriptions'
                   /\ subscriptions'[acct] =
                         [subscriptions[acct] EXCEPT
                             !.paid_intervals = @ + Due(acct),
                             !.last_payment_at = block_number]
                   /\ \E i \in DOMAIN active_subscriptions' :
                         active_subscriptions'[i] = acct
                   /\ (IntervalPrice(acct) > 0) =>
                         \E i \in DOMAIN transfers' :
                            transfers'[i] =
                               [to |-> owner,
                                amount |-> IntervalPrice(acct) * Due(acct)]
          /\ (\A acct \in DOMAIN subscriptions : Due(acct) <= Left(acct)) =>
                /\ ReceivedBy(owner, transfers') = Charges(DOMAIN subscriptions)
                /\ TotalOf(transfers') = Charges(DOMAIN subscriptions)]_vars

\* A settlement two weeks after the registration charged a weekly
\* subscription of three intervals for two of them.
C16_Witness ==
    /\ call.op = "payment_settlement"
    /\ ret.kind = "Ok"
    /\ price_per_block > 0
    /\ \E acct \in DOMAIN subscriptions :
          /\ subscriptions[acct].payment_interval = "Week"
          /\ subscriptions[acct].paid_intervals = 3
          /\ subscriptions[acct].last_payment_at = block_number
          /\ subscriptions[acct].registered_at = block_number - 2 * BLOCKS_PER_WEEK
    /\ \E i \in DOMAIN transfers : transfers[i].amount = 2 * BLOCKS_PER_WEEK

\* The subscriptions that a settlement run cancels.
Exhausted == {acct \in DOMAIN subscriptions : Due(acct) >= 1 /\ Left(acct) < Due(acct)}

\* C17 (settlement cancellation): in a settlement run, a subscription with
\* declared - paid < d is charged only for the remaining intervals, removed
\* from subscriptions and active_subscriptions and listed with its account
\* and handle in a single CancelledSubscriptions event; the event is emitted
\* exactly when a subscription was cancelled and lists exactly the
\* cancelled ones, and every other subscription stays active.
C17_SettlementCancels ==
    [][Settles =>
          /\ ret' = Ok("unit")
          /\ DOMAIN subscriptions' = DOMAIN subscriptions \ Exhausted
          /\ active_subscriptions' =
                SelectSeq(active_subscriptions, LAMBDA acct : acct \notin Exhausted)
          /\ ReceivedBy(owner, transfers') = Charges(DOMAIN subscriptions)
          /\ TotalOf(transfers') = Charges(DOMAIN subscriptions)
          /\ IF Exhausted = {} THEN emitted' = <<>>
             ELSE /\ Len(emitted') = 1
                  /\ emitted'[1].event = "CancelledSubscriptions"
                  /\ Len(emitted'[1].for_accounts) = Cardinality(Exhausted)
                  /\ {emitted'[1].for_accounts[i] :
                         i \in DOMAIN emitted'[1].for_accounts}
                        = {[for_account |-> acct,
                            external_channel_handle |->
                               subscriptions[acct].external_channel_handle.utf8] :
                              acct \in Exhausted}]_vars

\* A settlement cancelled one subscription, charged it for the interval it
\* had left, and kept the other one active.
C17_Witness ==
    /\ call.op = "payment_settlement"
    /\ ret.kind = "Ok"
    /\ Len(emitted) = 1
    /\ Len(emitted[1].for_accounts) = 1
    /\ emitted[1].for_accounts[1].for_account \notin DOMAIN subscriptions
    /\ Len(active_subscriptions) = 1
    /\ Len(transfers) = 2

\* C18 (nothing due): a settlement run less than one interval after the
\* last payment of a subscription leaves the subscription as it is,
\* registered and active, charges nothing for it and lists it in no event;
\* when no subscription has an interval elapsed the run transfers nothing
\* and emits nothing.
C18_NothingDue ==
    [][Settles =>
          /\ \A acct \in DOMAIN subscriptions :
                (block_number - subscriptions[acct].last_payment_at
                    < BlocksOf(subscriptions[acct].payment_interval)) =>
                   /\ acct \in DOMAIN subscriptions'
                   /\ subscriptions'[acct] = subscriptions[acct]
                   /\ \E i \in DOMAIN active_subscriptions' :
                         active_subscriptions'[i] = acct
                   /\ TotalOf(transfers') = Charges(DOMAIN subscriptions \ {acct})
                   /\ \A e \in DOMAIN emitted' :
                         \A i \in DOMAIN emitted'[e].for_accounts :
                            emitted'[e].for_accounts[i].for_account # acct
          /\ (\A acct \in DOMAIN subscriptions :
                 block_number - subscriptions[acct].last_payment_at
                    < BlocksOf(subscriptions[acct].payment_interval)) =>
                /\ subscriptions' = subscriptions
                /\ active_subscriptions' = active_subscriptions
                /\ transfers' = <<>>
                /\ emitted' = <<>>]_vars

\* A settlement a week after a monthly subscription was registered left it
\* untouched, while a weekly one was charged.
C18_Witness ==
    /\ call.op = "payment_settlement"
    /\ ret.kind = "Ok"
    /\ price_per_block > 0
    /\ Len(transfers) = 1
    /\ \E acct \in DOMAIN subscriptions :
          /\ subscriptions[acct].payment_interval = "Month"
          /\ subscriptions[acct].last_payment_at = block_number - BLOCKS_PER_WEEK
          /\ subscriptions[acct].paid_intervals = 1

\* C19 (owner-only operations): payment_settlement and transfer_ownership
\* by a caller who is not the current owner return NotAuthorized and change
\* no storage, no balance and no event; the owner is not refused; the
\* previous owner is such a caller once the ownership is transferred.
C19_OwnerOnly ==
    [][(Sends("payment_settlement") \/ Sends("transfer_ownership")) =>
          IF call'.caller # owner
          THEN /\ ret' = Err(<<"NotAuthorized">>)
               /\ UNCHANGED storage_vars
               /\ transfers' = <<>>
               /\ emitted' = <<>>
          ELSE ret' # Err(<<"NotAuthorized">>)]_vars

\* The previous owner asked for a settlement that was due and was refused.
C19_Witness ==
    /\ call.op = "payment_settlement"
    /\ call.caller = ACCOUNT
    /\ owner = INVALID_ACCOUNT
    /\ ret = Err(<<"NotAuthorized">>)
    /\ \E acct \in DOMAIN subscriptions : Due(acct) >= 1

\* C20 (ownership transfer): transfer_ownership by the owner to another
\* account sets owner to it and changes nothing else; with new_owner equal
\* to the owner it returns NewOwnerMustBeDifferent and the owner stays.
C20_OwnershipTransfer ==
    [][(Sends("transfer_ownership") /\ call'.caller = owner) =>
          /\ UNCHANGED <<price_per_block, subscriptions, active_subscriptions,
                         proof_vk, proof_min_required_age>>
          /\ transfers' = <<>>
          /\ emitted' = <<>>
          /\ IF call'.args.new_owner # owner
             THEN ret' = Ok("unit") /\ owner' = call'.args.new_owner
             ELSE ret' = Err(<<"NewOwnerMustBeDifferent">>) /\ owner' = owner]_vars

\* The ownership of a contract with a subscriber went to the other account.
C20_Witness ==
    /\ call.op = "transfer_ownership"
    /\ ret.kind = "Ok"
    /\ call.args.new_owner = owner
    /\ call.caller # owner
    /\ subscriptions # NoSubscriptions

C22_ActiveList ==
    [][Sends("get_active_subscriptions") =>
          /\ UNCHANGED <<storage_vars, block_number, code_hash>>
          /\ transfers' = <<>>
          /\ emitted' = <<>>
          /\ ret'.kind = "Ok"
          /\ LET subs == ret'.value
             IN  /\ Len(subs) = Cardinality(DOMAIN subscriptions)
                 /\ {subs[i] : i \in DOMAIN subs}
                       = {[for_account |-> acct,
                           external_channel_handle |->
                              subscriptions[acct].external_channel_handle.utf8] :
                             acct \in DOMAIN subscriptions}
                 /\ \A i, j \in DOMAIN subs :
                       (i < j) =>
                          subscriptions[subs[i].for_account].registered_at
                             <= subscriptions[subs[j].for_account].registered_at]_vars

\* Two subscribers are listed, the one that registered a week earlier
\* first; the other account's subscription is not its first one.
C22_Witness ==
    /\ call.op = "get_active_subscriptions"
    /\ ret.kind = "Ok"
    /\ Len(ret.value) = 2
    /\ ret.value[1] = [for_account |-> INVALID_ACCOUNT,
                       external_channel_handle |-> <<2, 2, 2, 2>>]
    /\ ret.value[2].for_account = ACCOUNT
    /\ subscriptions[INVALID_ACCOUNT].paid_intervals = 2
    /\ subscriptions[ACCOUNT].registered_at
          = subscriptions[INVALID_ACCOUNT].registered_at + BLOCKS_PER_WEEK

\* The file that generate_setup writes for a policy and a size parameter.
WrittenSetup(P, k) == SetupFile(Setup_generate(P, k), P, k)

Damaged(file) ==
    \/ file \in {NoFile, CorruptFile}
    \/ \E k \in KValues : file = Altered(WrittenSetup(required_age, k))

\* C24 (failed load): load_setup on missing, empty, corrupt or truncated
\* setup bytes returns an error, and after a failed load_setup the client
\* holds no setup, whatever it held before, so that a following
\* generate_proof or register_vk fails.
C24_DamagedSetupRefused ==
    /\ (result.op = "load_setup" /\ Damaged(setup_file)) => result.ret.kind = "Err"
    /\ (result.op = "load_setup" /\ result.ret.kind = "Err") => setup = None

\* C25 (setup before proof): generate_proof and register_vk called while no
\* setup is held fail with 'Missing trusted setup', write no proof file and
\* store no key; the client comes to hold a setup only by a generate_setup
\* or load_setup that succeeded; and with a setup held generate_proof, its
\* file written, succeeds and leaves a proof in the file.
C25_SetupBeforeProof ==
    [][/\ (setup = None /\ result'.op \in {"generate_proof", "register_vk"}) =>
             /\ result'.ret = Err("Missing trusted setup")
             /\ proof_file' = proof_file
             /\ vk_storage' = vk_storage
       /\ (setup = None /\ setup' # None) =>
             /\ result'.op \in {"generate_setup", "load_setup"}
             /\ result'.ret = Ok("unit")
       /\ (setup # None /\ result'.op = "generate_proof") =>
             /\ result'.ret # Err("Missing trusted setup")
             /\ (proof_file' # proof_file) =>
                   \/ proof_file' = CorruptFile
                   \/ result'.ret = Ok("unit") /\ proof_file'.kind = "proof"]_vars

\* C26 (no partial artifacts): when generate_setup returns an error no
\* setup file has been written and the client holds no newly generated
\* setup; when generate_proof returns an error no proof file has been
\* written or modified.
C26_NoPartialArtifacts ==
    [][/\ (result'.op = "generate_setup" /\ result'.ret.kind = "Err") =>
             /\ setup_file' = setup_file
             /\ setup' = setup
       /\ (result'.op = "generate_proof" /\ result'.ret.kind = "Err") =>
             proof_file' = proof_file]_vars

\* The integer whose little-endian bytes are bytes from + 1 .. from + n of
\* an account.
RECURSIVE LittleEndian(_, _, _)
LittleEndian(account, from, n) ==
    IF n = 0 THEN 0
    ELSE account[from + n] * ByteBase ^ (n - 1) + LittleEndian(account, from, n - 1)

\* C27 (public input): public_input(account) is the vector of three
\* elements RANGE_FROM, the little-endian integer of the first half of the
\* account bytes and the little-endian integer of the second half, in that
\* order, each half below the bound of a half and unreduced in its field
\* element; it depends on RANGE_FROM and the account only, and the proof
\* that generate_proof makes is assigned from exactly this vector.
C27_PublicInput ==
    (proof # NoProof /\ proof.honest) =>
       LET instances == public_input(proof.policy, proof.account)
           low == LittleEndian(proof.account, 0, HalfLen)
           high == LittleEndian(proof.account, HalfLen, HalfLen)
       IN  /\ DOMAIN instances = 0..2
           /\ instances[0] = proof.policy
           /\ instances[1] = low
           /\ instances[2] = high
           /\ low < ByteBase ^ HalfLen /\ high < ByteBase ^ HalfLen
           /\ ByteBase ^ HalfLen <= Modulus
           /\ \A r \in Rows : proof.p.advice.a[r] = instances[r]
           /\ proof.p = generate_proof(proof.policy, generate_setup(proof.policy),
                                       proof.age, proof.account)

\* A proof was generated for an account whose halves differ and whose low
\* half reads differently from its two ends.
C27_Witness ==
    /\ proof # NoProof
    /\ proof.honest
    /\ proof.account = [ACCOUNT EXCEPT ![1] = 2]
    /\ proof.p.advice.a[1] # proof.p.advice.a[2]
    /\ proof.p.advice.a[1] = from_le_bytes(SubSeq(proof.account, 1, HalfLen))
    /\ outcome # NoOutcome
    /\ outcome.ok
    /\ outcome.instances = public_input(proof.policy, proof.account)

\* C28 (verification-key blob): the blob of vk_to_bytes is the four
\* little-endian bytes of the setup's k followed by the raw bytes of the
\* verifying key and nothing else, and the k in it is the k of the SRS the
\* keys were generated from, also for a Setup that from_bytes restored.
C28_VkBlob ==
    /\ (setup # None) =>
          LET blob == vk_to_bytes(setup.value.s)
              k == setup.value.made_for.k
          IN  /\ DOMAIN blob = {"k", "vk"}
              /\ blob.k = <<k % 256, (k \div 256) % 256, (k \div 65536) % 256,
                            (k \div 16777216) % 256>>
              /\ blob.vk = [k |-> k, fixed |-> assign_fixed, rng |-> setup.value.s.rng]
    /\ (result.op = "register_vk" /\ result.ret.kind = "Ok") =>
          vk_to_bytes(setup.value.s) \in vk_storage
    /\ \A blob \in vk_storage :
          /\ Len(blob.k) = 4
          /\ blob.k[1] + 256 * blob.k[2] + 65536 * blob.k[3] + 16777216 * blob.k[4]
                = blob.vk.k

\* The key of a Setup that was restored from a file of the larger size
\* parameter was registered.
C28_Witness ==
    /\ result = [op |-> "register_vk", ret |-> Ok("unit")]
    /\ setup # None
    /\ setup_file = WrittenSetup(required_age, MaxK)
    /\ setup.value.made_for.k = MaxK
    /\ vk_to_bytes(setup.value.s).k = <<MaxK, 0, 0, 0>>
    /\ vk_to_bytes(setup.value.s) \in vk_storage

\* C29 (ledger consistency): in every state reachable by add_subscription,
\* cancel_subscription, payment_settlement and transfer_ownership calls,
\* active_subscriptions holds no account twice and its accounts are the
\* keys of subscriptions; get_active_subscriptions and payment_settlement
\* never return InconsistentSubscriptionData.
C29_LedgerConsistent ==
    /\ \A i, j \in DOMAIN active_subscriptions :
          (active_subscriptions[i] = active_subscriptions[j]) => i = j
    /\ {active_subscriptions[i] : i \in DOMAIN active_subscriptions}
          = DOMAIN subscriptions
    /\ (call.op \in {"get_active_subscriptions", "payment_settlement"}
           /\ ret.kind = "Err") =>
          ret = Err(<<"NotAuthorized">>)

\* Both accounts are subscribed, the one that registered later behind the
\* other, the ownership was transferred, and the list was read.
C29_Witness ==
    /\ call.op = "get_active_subscriptions"
    /\ ret.kind = "Ok"
    /\ active_subscriptions = <<INVALID_ACCOUNT, ACCOUNT>>
    /\ DOMAIN subscriptions = {ACCOUNT, INVALID_ACCOUNT}
    /\ subscriptions[ACCOUNT].registered_at > subscriptions[INVALID_ACCOUNT].registered_at
    /\ owner = INVALID_ACCOUNT

\* The proofs that the honest prover generates for an account under a
\* threshold.
ProofsFor(acct, P) ==
    {generate_proof(P, generate_setup(P), age, acct) : age \in ClientAges}

\* C30 (binding to caller and threshold): add_subscription verifies the
\* proof against inputs built from the contract's proof_min_required_age
\* and the calling account: an account becomes subscribed only by a proof
\* generated for it under that threshold, and a proof generated for another
\* account, or under another threshold, registers nothing.
C30_BoundToCaller ==
    (call.op = "add_subscription") =>
       /\ (ret.kind = "Ok") =>
             call.args.proof \in ProofsFor(call.caller, proof_min_required_age)
       /\ (\E X \in LedgerAccounts \ {call.caller}, P \in Policies :
              call.args.proof \in ProofsFor(X, P)) => ret.kind = "Err"
       /\ (\E X \in LedgerAccounts, P \in Policies \ {proof_min_required_age} :
              call.args.proof \in ProofsFor(X, P)) => ret.kind = "Err"

\* The account that is not the owner submitted, well-formed and paid, the
\* proof generated for the owner under the contract's threshold and key: the
\* verifier refused it and nothing was registered.
C30_Witness ==
    /\ call.op = "add_subscription"
    /\ call.caller = INVALID_ACCOUNT
    /\ call.args.proof
          = generate_proof(proof_min_required_age, generate_setup(proof_min_required_age),
                           TEST_AGE, ACCOUNT)
    /\ proof_vk = KeyHash(vk_of(generate_setup(proof_min_required_age)))
    /\ call.verifier = "VERIFY_VERIFICATION_FAIL"
    /\ ret = Err(<<"InvalidProofForMinAgeRequired">>)
    /\ INVALID_ACCOUNT \notin DOMAIN subscriptions

\* The canonical encoding of a field element: the integer below the modulus
\* in little-endian bytes, as wide as a field element.
CanonicalBytes(x) == le_bytes(x % Modulus, AccountLen)

\* The wire form of a vector of three field elements.
WireForm(instances) ==
    CanonicalBytes(instances[0]) \o CanonicalBytes(instances[1])
        \o CanonicalBytes(instances[2])

\* The bytes of the contract against the encodings of the prover's vector,
\* for every account and threshold of the model.
WireFormOfEvery ==
    \A acct \in Accounts, P \in Policies :
          /\ proof_public_inputs(P, acct) = Ok(WireForm(public_input(P, acct)))
          /\ Len(proof_public_inputs(P, acct).value) = 3 * AccountLen
          /\ \A i \in Rows :
                /\ SubSeq(InputChunk(proof_public_inputs(P, acct).value, i),
                          HalfLen + 1, AccountLen) = Padding
                /\ from_le_bytes(InputChunk(proof_public_inputs(P, acct).value, i))
                      = public_input(P, acct)[i]

\* C31 (public-input wire form): for every account and every threshold the
\* bytes that proof_public_inputs builds (three words, each the little-endian
\* bytes of the value followed by as many zero bytes, in the order threshold,
\* low half, high half of the account) are the canonical little-endian
\* encodings, one after the other, of the prover's public_input(account)
\* for RANGE_FROM equal to the threshold; so the verifier of a registration
\* reads from them the instances the prover of the caller used.
C31_WireFormAgrees ==
    /\ WireFormOfEvery
    /\ (call.op = "add_subscription" /\ call.verifier # "none") =>
          /\ call.verifier # "VERIFY_DESERIALIZING_INPUT_FAIL"
          /\ (call.verifier = "VERIFY_SUCCESS") <=>
                \E vk \in VkStorage :
                   /\ KeyHash(vk) = proof_vk
                   /\ call.args.proof.kind = "proof"
                   /\ verify_proof(vk, public_input(proof_min_required_age, call.caller),
                                   call.args.proof)

\* The account that is not the owner registered with the proof generated
\* for it: the verifier accepted the proof against the bytes the contract
\* built for that account and the threshold.
C31_Witness ==
    /\ call.op = "add_subscription"
    /\ call.caller = INVALID_ACCOUNT
    /\ call.verifier = "VERIFY_SUCCESS"
    /\ ret = Ok("unit")
    /\ call.args.proof
          = generate_proof(proof_min_required_age, generate_setup(proof_min_required_age),
                           TEST_AGE, INVALID_ACCOUNT)
    /\ proof_public_inputs(proof_min_required_age, call.caller).value
          = to_le_bytes(proof_min_required_age) \o Padding
               \o SubSeq(INVALID_ACCOUNT, 1, HalfLen) \o Padding
               \o SubSeq(INVALID_ACCOUNT, HalfLen + 1, AccountLen) \o Padding

\* The result of verify_proof is the same for every status of the extension
\* that is not the success.
FailuresAlike ==
    \A s1, s2 \in StatusCodes \ {"VERIFY_SUCCESS"} :
       /\ verify_map_err(s1) = verify_map_err(s2)
       /\ verify_map_err(s1) = Err(<<"InvalidProofForMinAgeRequired">>)

\* C32 (a verification failure tells no detail): whatever status other than
\* the success the verifier extension gives (the proof is false, the proof or
\* the public input cannot be decoded, the key hash is unknown, or any other
\* status), add_subscription returns the one error
\* InvalidProofForMinAgeRequired, which carries no payload: the results of
\* two failing calls are equal.
C32_FailureTellsNoDetail ==
    /\ FailuresAlike
    /\ (call.op = "add_subscription" /\ call.verifier \notin {"none", "VERIFY_SUCCESS"}) =>
          /\ ret = Err(<<"InvalidProofForMinAgeRequired">>)
          /\ Len(ret.error) = 1
          /\ ret = verify_map_err("VERIFY_VERIFICATION_FAIL")

\* A call that is not from a subscriber, well-formed and paid in full, was
\* refused by the verifier with a status that is none of the verifier's
\* named failures.
C32_Witness ==
    /\ call.op = "add_subscription"
    /\ call.verifier = "OTHER_STATUS"
    /\ call.caller = INVALID_ACCOUNT
    /\ price_per_block = 1
    /\ call.args.intervals_to_pay = MaxIntervals
    /\ call.args.transferred_value
          = price_per_interval(price_per_block, call.args.payment_interval) * MaxIntervals
    /\ ~is_empty(call.args.external_channel_handle)
    /\ INVALID_ACCOUNT \notin DOMAIN subscriptions
    /\ ret = Err(<<"InvalidProofForMinAgeRequired">>)

====
